---- MODULE Spec2Model ----
(***************************************************************************)
(* The in-memory entity stores of server/storage.ts (the SkillSwap store   *)
(* and the expense store) and the suggestion endpoint of server/routes.ts. *)
(*                                                                         *)
(* A JavaScript object is a function from field names to values; a field   *)
(* that was never written is absent from its DOMAIN (undefined).  A JS Map *)
(* is a sequence of key/value entries in insertion order.  Dates are       *)
(* integers read from the wall clock, which may step backwards.            *)
(***************************************************************************)
EXTENDS Integers, Sequences, FiniteSets, TLC

VARIABLES users, skills, matches, sessions, messages, exchanges,
          expenses, approvals,
          currentUserId, currentSkillId, currentMatchId, currentSessionId,
          currentMessageId, currentExchangeId, currentExpenseId,
          currentApprovalId,
          now, assigned, ret, nops, res, inflight

maps == <<users, skills, matches, sessions, messages, exchanges,
          expenses, approvals>>

counters == <<currentUserId, currentSkillId, currentMatchId, currentSessionId,
              currentMessageId, currentExchangeId, currentExpenseId,
              currentApprovalId>>

vars == <<nops, maps, counters, now, assigned, ret, res, inflight>>

(***************************************************************************)
(* Bounds of the model.                                                    *)
(***************************************************************************)
\* steps per behaviour of the store specification
MaxOps == 3
\* steps per behaviour of the message specification
MaxMsgOps == 5
\* steps per behaviour of the suggestion specification
MaxSugOps == 5
\* wall-clock readings are 0..MaxTime
MaxTime == 1

Times == 0..MaxTime

(***************************************************************************)
(* JavaScript values.                                                      *)
(***************************************************************************)
\* null in a text column
Null == "null"
\* null in an integer or timestamp column (ids start at 1, times at 0)
NullNum == -1
\* the value of Map.get on a missing key, and of a handler that found nothing
Undefined == [undefined |-> TRUE]

\* NaN, the value of parseInt on a string that starts with no digit.  No
\* stored field holds it (no JSON body carries NaN, no id counter reaches
\* it), so NaN === x is false for every x it is compared with
NaN == -2

\* (mutant) a malformed id falls back to the first id: parseInt(s) || 1
parseIntOrFirst(s) ==
    CASE s = "1" -> 1
      [] s = "2" -> 2
      [] s = "3" -> 3
      [] s = "4" -> 4
      [] OTHER -> 1

\* parseInt on the path parameters the model sends
parseInt(s) ==
    CASE s = "1" -> 1
      [] s = "2" -> 2
      [] s = "3" -> 3
      [] s = "4" -> 4
      [] OTHER -> NaN

\* (mutant) a || d that forgets the default
OrElseNoDefault(p, f, d) ==
    IF f \in DOMAIN p /\ p[f] # Null /\ p[f] # "" THEN p[f] ELSE Null

\* a || d on the field f of the object p: d when p.f is undefined, null or ""
OrElse(p, f, d) ==
    IF f \in DOMAIN p /\ p[f] # Null /\ p[f] # "" THEN p[f] ELSE d

\* (mutant) an update that stores the payload in place of the merged record
SpreadPayloadOnly(a, b) == b

\* the object spread {...a, ...b}
Spread(a, b) ==
    [f \in DOMAIN a \cup DOMAIN b |-> IF f \in DOMAIN b THEN b[f] ELSE a[f]]

\* String.prototype.toLowerCase on the skill names the model uses
toLowerCase(s) ==
    CASE s = "Python" -> "python"
      [] s = "PYTHON" -> "python"
      [] s = "Guitar" -> "guitar"
      [] s = "JavaScript Programming" -> "javascript programming"
      [] s = "UI/UX Design" -> "ui/ux design"
      [] OTHER -> s

(***************************************************************************)
(* Map<number, T>: entries in insertion order.                             *)
(***************************************************************************)
MapHas(m, k) == \E i \in 1..Len(m) : m[i].key = k

MapGet(m, k) ==
    IF MapHas(m, k)
    THEN m[CHOOSE i \in 1..Len(m) : m[i].key = k].val
    ELSE Undefined

MapSet(m, k, v) ==
    IF MapHas(m, k)
    THEN [i \in 1..Len(m) |->
            IF m[i].key = k THEN [key |-> k, val |-> v] ELSE m[i]]
    ELSE Append(m, [key |-> k, val |-> v])

MapDelete(m, k) == SelectSeq(m, LAMBDA e : e.key # k)

\* Array.from(m.values())
MapValues(m) == [i \in 1..Len(m) |-> m[i].val]

MapKeys(m) == {m[i].key : i \in 1..Len(m)}

(***************************************************************************)
(* Array helpers.                                                          *)
(***************************************************************************)
\* Array.prototype.find, given the indices hits of the elements of arr that
\* satisfy the predicate: the first such element, else undefined
Find(arr, hits) ==
    IF hits = {}
    THEN Undefined
    ELSE arr[CHOOSE i \in hits : \A j \in hits : i <= j]

\* insert x into the sorted array arr after every element that does not
\* compare greater (comparator a.createdAt - b.createdAt)
RECURSIVE InsertByCreatedAt(_, _)
InsertByCreatedAt(arr, x) ==
    IF arr = <<>> THEN <<x>>
    ELSE IF Head(arr).createdAt - x.createdAt > 0
         THEN <<x>> \o arr
         ELSE <<Head(arr)>> \o InsertByCreatedAt(Tail(arr), x)

\* Array.prototype.sort((a, b) => a.createdAt.getTime() - b.createdAt.getTime()),
\* a stable sort
RECURSIVE SortByCreatedAt(_)
SortByCreatedAt(arr) ==
    IF arr = <<>> THEN <<>>
    ELSE InsertByCreatedAt(SortByCreatedAt(SubSeq(arr, 1, Len(arr) - 1)),
                           arr[Len(arr)])

(***************************************************************************)
(* What the last step did: the store method, its id argument (0 when it    *)
(* has none), its payload and its return value.                            *)
(***************************************************************************)
Ret(op, id, arg, val) == [op |-> op, id |-> id, arg |-> arg, val |-> val]

\* the ids handed out so far, per entity type, in the order they were handed out
Assign(e, id) == [assigned EXCEPT ![e] = Append(@, id)]

\* res.status(status).json(body), sent by the handler of route
Response(route, status, body) ==
    [route |-> route, status |-> status, body |-> body]

\* no request has been answered: the last step called the store directly
NoResponse == Response("", 0, <<>>)

\* no approval request is between its two store calls
Idle == [approval |-> Undefined]

(***************************************************************************)
(* SkillSwap store: MemStorage.initializeSampleData.                       *)
(***************************************************************************)
john ==
    [id |-> 1, email |-> "john@example.com", password |-> "password123",
     name |-> "John Smith", bio |-> "Software developer passionate about teaching programming and learning design",
     profilePicture |-> Null, location |-> "San Francisco, CA",
     createdAt |-> 0]

sarah ==
    [id |-> 2, email |-> "sarah@example.com", password |-> "password123",
     name |-> "Sarah Johnson", bio |-> "UI/UX designer looking to expand my technical skills",
     profilePicture |-> Null, location |-> "New York, NY",
     createdAt |-> 0]

programmingSkill ==
    [id |-> 1, userId |-> 1, name |-> "JavaScript Programming",
     type |-> "teach", level |-> "advanced",
     description |-> "Full-stack JavaScript development with React and Node.js", createdAt |-> 0]

designSkill ==
    [id |-> 2, userId |-> 2, name |-> "UI/UX Design",
     type |-> "teach", level |-> "intermediate",
     description |-> "User interface and user experience design principles", createdAt |-> 0]

learnProgramming ==
    [id |-> 3, userId |-> 2, name |-> "JavaScript Programming",
     type |-> "learn", level |-> "beginner",
     description |-> "Want to learn web development fundamentals", createdAt |-> 0]

sampleMatch ==
    [id |-> 1, teacherId |-> 1, learnerId |-> 2, skillId |-> 1,
     status |-> "accepted", createdAt |-> 0]

Entry(v) == [key |-> v.id, val |-> v]

Init ==
    /\ users = <<Entry(john), Entry(sarah)>>
    /\ skills = <<Entry(programmingSkill), Entry(designSkill),
                  Entry(learnProgramming)>>
    /\ matches = <<Entry(sampleMatch)>>
    /\ sessions = <<>>
    /\ messages = <<>>
    /\ exchanges = <<>>
    /\ expenses = <<>>
    /\ approvals = <<>>
    /\ currentUserId = 3
    /\ currentSkillId = 4
    /\ currentMatchId = 2
    /\ currentSessionId = 1
    /\ currentMessageId = 1
    /\ currentExchangeId = 1
    /\ currentExpenseId = 1
    /\ currentApprovalId = 1
    /\ now = 0
    /\ assigned = [user |-> <<1, 2>>, skill |-> <<1, 2, 3>>, match |-> <<1>>,
                   session |-> <<>>, message |-> <<>>, exchange |-> <<>>,
                   expense |-> <<>>, approval |-> <<>>]
    /\ ret = Ret("constructor", 0, <<>>, Undefined)
    /\ nops = 0
    /\ res = NoResponse
    /\ inflight = Idle

\* the wall clock moves, forwards or (when it is adjusted) backwards
clockStep(t) ==
    /\ t # now
    /\ now' = t
    /\ ret' = Ret("clockStep", 0, <<>>, t)
    /\ UNCHANGED <<maps, counters, assigned>>

(***************************************************************************)
(* User methods.                                                           *)
(***************************************************************************)
getUser(id) == MapGet(users, id)

getAllUsers == MapValues(users)

getUserByEmail(email) ==
    LET all == MapValues(users)
    IN  Find(all, {i \in 1..Len(all) : all[i].email = email})

createUser(insertUser) ==
    LET user == [id |-> currentUserId,
                 email |-> insertUser.email,
                 password |-> insertUser.password,
                 name |-> insertUser.name,
                 bio |-> OrElse(insertUser, "bio", Null),
                 profilePicture |-> OrElse(insertUser, "profilePicture", Null),
                 location |-> OrElse(insertUser, "location", Null),
                 createdAt |-> now]
    IN  /\ currentUserId' = currentUserId + 1
        /\ users' = MapSet(users, user.id, user)
        /\ assigned' = Assign("user", user.id)
        /\ ret' = Ret("createUser", 0, insertUser, user)
        /\ UNCHANGED <<skills, matches, sessions, messages, exchanges,
                       expenses, approvals, currentSkillId, currentMatchId,
                       currentSessionId, currentMessageId, currentExchangeId,
                       currentExpenseId, currentApprovalId, now>>

updateUser(id, updates) ==
    LET user == MapGet(users, id)
        updatedUser == Spread(user, updates)
    IN  /\ IF user = Undefined
           THEN /\ ret' = Ret("updateUser", id, updates, Undefined)
                /\ users' = users
           ELSE /\ users' = MapSet(users, id, updatedUser)
                /\ ret' = Ret("updateUser", id, updates, updatedUser)
        /\ UNCHANGED <<skills, matches, sessions, messages, exchanges,
                       expenses, approvals, counters, now, assigned>>

(***************************************************************************)
(* Skill methods.                                                          *)
(***************************************************************************)
getSkill(id) == MapGet(skills, id)

getSkillsByUser(userId) ==
    SelectSeq(MapValues(skills), LAMBDA skill : skill.userId = userId)

getSkillsByType(type) ==
    SelectSeq(MapValues(skills), LAMBDA skill : skill.type = type)

\* (mutant) the id taken from the size of the map, not from the counter
createSkillIdFromSize(insertSkill) ==
    LET skill == [id |-> Len(skills) + 1,
                  userId |-> insertSkill.userId,
                  name |-> insertSkill.name,
                  type |-> insertSkill.type,
                  level |-> insertSkill.level,
                  description |-> OrElse(insertSkill, "description", Null),
                  createdAt |-> now]
    IN  /\ currentSkillId' = currentSkillId + 1
        /\ skills' = MapSet(skills, skill.id, skill)
        /\ assigned' = Assign("skill", skill.id)
        /\ ret' = Ret("createSkill", 0, insertSkill, skill)
        /\ UNCHANGED <<users, matches, sessions, messages, exchanges,
                       expenses, approvals, currentUserId, currentMatchId,
                       currentSessionId, currentMessageId, currentExchangeId,
                       currentExpenseId, currentApprovalId, now>>

createSkill(insertSkill) ==
    LET skill == [id |-> currentSkillId,
                  userId |-> insertSkill.userId,
                  name |-> insertSkill.name,
                  type |-> insertSkill.type,
                  level |-> insertSkill.level,
                  description |-> OrElse(insertSkill, "description", Null),
                  createdAt |-> now]
    IN  /\ currentSkillId' = currentSkillId + 1
        /\ skills' = MapSet(skills, skill.id, skill)
        /\ assigned' = Assign("skill", skill.id)
        /\ ret' = Ret("createSkill", 0, insertSkill, skill)
        /\ UNCHANGED <<users, matches, sessions, messages, exchanges,
                       expenses, approvals, currentUserId, currentMatchId,
                       currentSessionId, currentMessageId, currentExchangeId,
                       currentExpenseId, currentApprovalId, now>>

updateSkill(id, updates) ==
    LET skill == MapGet(skills, id)
        updatedSkill == Spread(skill, updates)
    IN  /\ IF skill = Undefined
           THEN /\ ret' = Ret("updateSkill", id, updates, Undefined)
                /\ skills' = skills
           ELSE /\ skills' = MapSet(skills, id, updatedSkill)
                /\ ret' = Ret("updateSkill", id, updates, updatedSkill)
        /\ UNCHANGED <<users, matches, sessions, messages, exchanges,
                       expenses, approvals, counters, now, assigned>>

\* (mutant) a delete that reports success whether or not the key was there
deleteSkillAlwaysTrue(id) ==
    /\ skills' = MapDelete(skills, id)
    /\ ret' = Ret("deleteSkill", id, <<>>, TRUE)
    /\ UNCHANGED <<users, matches, sessions, messages, exchanges,
                   expenses, approvals, counters, now, assigned>>

\* Map.delete: true when the key was present
deleteSkill(id) ==
    /\ skills' = MapDelete(skills, id)
    /\ ret' = Ret("deleteSkill", id, <<>>, MapHas(skills, id))
    /\ UNCHANGED <<users, matches, sessions, messages, exchanges,
                   expenses, approvals, counters, now, assigned>>

(***************************************************************************)
(* Match methods.                                                          *)
(***************************************************************************)
getMatch(id) == MapGet(matches, id)

\* (mutant) only the matches the user teaches in
getMatchesByUserTeacherOnly(userId) ==
    SelectSeq(MapValues(matches), LAMBDA match : match.teacherId = userId)

getMatchesByUser(userId) ==
    SelectSeq(MapValues(matches),
              LAMBDA match : match.teacherId = userId \/ match.learnerId = userId)

getMatchesByStatus(status) ==
    SelectSeq(MapValues(matches), LAMBDA match : match.status = status)

createMatch(insertMatch) ==
    LET match == [id |-> currentMatchId,
                  teacherId |-> insertMatch.teacherId,
                  learnerId |-> insertMatch.learnerId,
                  skillId |-> insertMatch.skillId,
                  status |-> OrElse(insertMatch, "status", "pending"),
                  createdAt |-> now]
    IN  /\ currentMatchId' = currentMatchId + 1
        /\ matches' = MapSet(matches, match.id, match)
        /\ assigned' = Assign("match", match.id)
        /\ ret' = Ret("createMatch", 0, insertMatch, match)
        /\ UNCHANGED <<users, skills, sessions, messages, exchanges,
                       expenses, approvals, currentUserId, currentSkillId,
                       currentSessionId, currentMessageId, currentExchangeId,
                       currentExpenseId, currentApprovalId, now>>

\* (mutant) an update that inserts the payload when the id is missing
updateMatchUpsert(id, updates) ==
    LET match == MapGet(matches, id)
        updatedMatch == IF match = Undefined THEN updates
                        ELSE Spread(match, updates)
    IN  /\ matches' = MapSet(matches, id, updatedMatch)
        /\ ret' = Ret("updateMatch", id, updates, updatedMatch)
        /\ UNCHANGED <<users, skills, sessions, messages, exchanges,
                       expenses, approvals, counters, now, assigned>>

updateMatch(id, updates) ==
    LET match == MapGet(matches, id)
        updatedMatch == Spread(match, updates)
    IN  /\ IF match = Undefined
           THEN /\ ret' = Ret("updateMatch", id, updates, Undefined)
                /\ matches' = matches
           ELSE /\ matches' = MapSet(matches, id, updatedMatch)
                /\ ret' = Ret("updateMatch", id, updates, updatedMatch)
        /\ UNCHANGED <<users, skills, sessions, messages, exchanges,
                       expenses, approvals, counters, now, assigned>>

(***************************************************************************)
(* Session methods.                                                        *)
(***************************************************************************)
getSession(id) == MapGet(sessions, id)

createSession(insertSession) ==
    LET session == [id |-> currentSessionId,
                    matchId |-> insertSession.matchId,
                    scheduledAt |-> insertSession.scheduledAt,
                    duration |-> insertSession.duration,
                    status |-> OrElse(insertSession, "status", "scheduled"),
                    notes |-> OrElse(insertSession, "notes", Null),
                    createdAt |-> now]
    IN  /\ currentSessionId' = currentSessionId + 1
        /\ sessions' = MapSet(sessions, session.id, session)
        /\ assigned' = Assign("session", session.id)
        /\ ret' = Ret("createSession", 0, insertSession, session)
        /\ UNCHANGED <<users, skills, matches, messages, exchanges,
                       expenses, approvals, currentUserId, currentSkillId,
                       currentMatchId, currentMessageId, currentExchangeId,
                       currentExpenseId, currentApprovalId, now>>

updateSession(id, updates) ==
    LET session == MapGet(sessions, id)
        updatedSession == Spread(session, updates)
    IN  /\ IF session = Undefined
           THEN /\ ret' = Ret("updateSession", id, updates, Undefined)
                /\ sessions' = sessions
           ELSE /\ sessions' = MapSet(sessions, id, updatedSession)
                /\ ret' = Ret("updateSession", id, updates, updatedSession)
        /\ UNCHANGED <<users, skills, matches, messages, exchanges,
                       expenses, approvals, counters, now, assigned>>

(***************************************************************************)
(* Message methods.                                                        *)
(***************************************************************************)
getMessage(id) == MapGet(messages, id)

\* (mutant) the messages of a match in map order, without the sort
getMessagesByMatchUnsorted(matchId) ==
    SelectSeq(MapValues(messages), LAMBDA message : message.matchId = matchId)

getMessagesByMatch(matchId) ==
    SortByCreatedAt(SelectSeq(MapValues(messages),
                              LAMBDA message : message.matchId = matchId))

createMessage(insertMessage) ==
    LET message == [id |-> currentMessageId,
                    matchId |-> insertMessage.matchId,
                    senderId |-> insertMessage.senderId,
                    content |-> insertMessage.content,
                    createdAt |-> now]
    IN  /\ currentMessageId' = currentMessageId + 1
        /\ messages' = MapSet(messages, message.id, message)
        /\ assigned' = Assign("message", message.id)
        /\ ret' = Ret("createMessage", 0, insertMessage, message)
        /\ UNCHANGED <<users, skills, matches, sessions, exchanges,
                       expenses, approvals, currentUserId, currentSkillId,
                       currentMatchId, currentSessionId, currentExchangeId,
                       currentExpenseId, currentApprovalId, now>>

(***************************************************************************)
(* Exchange methods.                                                       *)
(***************************************************************************)
getExchange(id) == MapGet(exchanges, id)

createExchange(insertExchange) ==
    LET exchange == [id |-> currentExchangeId,
                     userId |-> insertExchange.userId,
                     partnerId |-> insertExchange.partnerId,
                     hoursGiven |-> OrElse(insertExchange, "hoursGiven", "0"),
                     hoursReceived |-> OrElse(insertExchange, "hoursReceived", "0"),
                     createdAt |-> now,
                     updatedAt |-> now]
    IN  /\ currentExchangeId' = currentExchangeId + 1
        /\ exchanges' = MapSet(exchanges, exchange.id, exchange)
        /\ assigned' = Assign("exchange", exchange.id)
        /\ ret' = Ret("createExchange", 0, insertExchange, exchange)
        /\ UNCHANGED <<users, skills, matches, sessions, messages,
                       expenses, approvals, currentUserId, currentSkillId,
                       currentMatchId, currentSessionId, currentMessageId,
                       currentExpenseId, currentApprovalId, now>>

updateExchange(id, updates) ==
    LET exchange == MapGet(exchanges, id)
        updatedExchange ==
            Spread(Spread(exchange, updates), [updatedAt |-> now])
    IN  /\ IF exchange = Undefined
           THEN /\ ret' = Ret("updateExchange", id, updates, Undefined)
                /\ exchanges' = exchanges
           ELSE /\ exchanges' = MapSet(exchanges, id, updatedExchange)
                /\ ret' = Ret("updateExchange", id, updates, updatedExchange)
        /\ UNCHANGED <<users, skills, matches, sessions, messages,
                       expenses, approvals, counters, now, assigned>>

(***************************************************************************)
(* Expense store: expense and approval methods.                            *)
(***************************************************************************)
getExpense(id) == MapGet(expenses, id)

getExpensesByUser(userId) ==
    SelectSeq(MapValues(expenses), LAMBDA expense : expense.userId = userId)

\* the status of an expense stored without one is undefined and equals no
\* status asked for
getExpensesByStatus(status) ==
    SelectSeq(MapValues(expenses),
              LAMBDA expense : "status" \in DOMAIN expense
                                  /\ expense.status = status)

createExpense(insertExpense) ==
    LET expense == Spread(insertExpense,
                          [id |-> currentExpenseId,
                           createdAt |-> now,
                           updatedAt |-> now,
                           approvedBy |-> NullNum,
                           approvedAt |-> NullNum,
                           submittedAt |-> NullNum])
    IN  /\ currentExpenseId' = currentExpenseId + 1
        /\ expenses' = MapSet(expenses, expense.id, expense)
        /\ assigned' = Assign("expense", expense.id)
        /\ ret' = Ret("createExpense", 0, insertExpense, expense)
        /\ UNCHANGED <<users, skills, matches, sessions, messages, exchanges,
                       approvals, currentUserId, currentSkillId,
                       currentMatchId, currentSessionId, currentMessageId,
                       currentExchangeId, currentApprovalId, now>>

\* (mutant) the spread the wrong way round: the stored fields win over the
\* updates
updateExpenseStale(id, updates) ==
    LET expense == MapGet(expenses, id)
        updatedExpense ==
            Spread(Spread(updates, expense), [updatedAt |-> now])
    IN  /\ IF expense = Undefined
           THEN /\ ret' = Ret("updateExpense", id, updates, Undefined)
                /\ expenses' = expenses
           ELSE /\ expenses' = MapSet(expenses, id, updatedExpense)
                /\ ret' = Ret("updateExpense", id, updates, updatedExpense)
        /\ UNCHANGED <<users, skills, matches, sessions, messages, exchanges,
                       approvals, counters, now, assigned>>

updateExpense(id, updates) ==
    LET expense == MapGet(expenses, id)
        updatedExpense ==
            Spread(Spread(expense, updates), [updatedAt |-> now])
    IN  /\ IF expense = Undefined
           THEN /\ ret' = Ret("updateExpense", id, updates, Undefined)
                /\ expenses' = expenses
           ELSE /\ expenses' = MapSet(expenses, id, updatedExpense)
                /\ ret' = Ret("updateExpense", id, updates, updatedExpense)
        /\ UNCHANGED <<users, skills, matches, sessions, messages, exchanges,
                       approvals, counters, now, assigned>>

deleteExpense(id) ==
    /\ expenses' = MapDelete(expenses, id)
    /\ ret' = Ret("deleteExpense", id, <<>>, MapHas(expenses, id))
    /\ UNCHANGED <<users, skills, matches, sessions, messages, exchanges,
                   approvals, counters, now, assigned>>

getApproval(id) == MapGet(approvals, id)

\* (mutant) a create that returns a record stamped after the stored one
createApprovalRestamped(insertApproval) ==
    LET approval == Spread(insertApproval,
                           [id |-> currentApprovalId, createdAt |-> now])
    IN  /\ currentApprovalId' = currentApprovalId + 1
        /\ approvals' = MapSet(approvals, approval.id, approval)
        /\ assigned' = Assign("approval", approval.id)
        /\ ret' = Ret("createApproval", 0, insertApproval,
                      Spread(approval, [createdAt |-> now + 1]))
        /\ UNCHANGED <<users, skills, matches, sessions, messages, exchanges,
                       expenses, currentUserId, currentSkillId,
                       currentMatchId, currentSessionId, currentMessageId,
                       currentExchangeId, currentExpenseId, now>>

\* (mutant) a create that also writes its decision into the expense
createApprovalTransitions(insertApproval) ==
    LET approval == Spread(insertApproval,
                           [id |-> currentApprovalId, createdAt |-> now])
        expense == MapGet(expenses, approval.expenseId)
    IN  /\ currentApprovalId' = currentApprovalId + 1
        /\ approvals' = MapSet(approvals, approval.id, approval)
        /\ expenses' = IF expense = Undefined
                       THEN expenses
                       ELSE MapSet(expenses, expense.id,
                                   Spread(expense,
                                          [status |-> approval.status]))
        /\ assigned' = Assign("approval", approval.id)
        /\ ret' = Ret("createApproval", 0, insertApproval, approval)
        /\ UNCHANGED <<users, skills, matches, sessions, messages, exchanges,
                       currentUserId, currentSkillId,
                       currentMatchId, currentSessionId, currentMessageId,
                       currentExchangeId, currentExpenseId, now>>

createApproval(insertApproval) ==
    LET approval == Spread(insertApproval,
                           [id |-> currentApprovalId, createdAt |-> now])
    IN  /\ currentApprovalId' = currentApprovalId + 1
        /\ approvals' = MapSet(approvals, approval.id, approval)
        /\ assigned' = Assign("approval", approval.id)
        /\ ret' = Ret("createApproval", 0, insertApproval, approval)
        /\ UNCHANGED <<users, skills, matches, sessions, messages, exchanges,
                       expenses, currentUserId, currentSkillId,
                       currentMatchId, currentSessionId, currentMessageId,
                       currentExchangeId, currentExpenseId, now>>

updateApproval(id, updates) ==
    LET approval == MapGet(approvals, id)
        updatedApproval == Spread(approval, updates)
    IN  /\ IF approval = Undefined
           THEN /\ ret' = Ret("updateApproval", id, updates, Undefined)
                /\ approvals' = approvals
           ELSE /\ approvals' = MapSet(approvals, id, updatedApproval)
                /\ ret' = Ret("updateApproval", id, updates, updatedApproval)
        /\ UNCHANGED <<users, skills, matches, sessions, messages, exchanges,
                       expenses, counters, now, assigned>>

(***************************************************************************)
(* Read-only routes.  A handler runs to completion before the next request *)
(* is taken up: every await in it is on a store method that has already    *)
(* resolved.                                                               *)
(***************************************************************************)
\* GET /api/messages/:matchId
getMessages(param) ==
    LET matchId == parseInt(param)
    IN  /\ ret' = Ret("getMessages", matchId, param,
                      getMessagesByMatch(matchId))
        /\ res' = Response("GET /api/messages/:matchId", 200, ret'.val)
        /\ UNCHANGED <<maps, counters, now, assigned>>

\* (mutant) a teacher skill found by name alone, whatever its type
candidateAnyType(learningSkill, user, userId) ==
    IF user.id = userId THEN <<>>
    ELSE
    LET teacherSkills == getSkillsByUser(user.id)
        matchingTeachSkill ==
            Find(teacherSkills,
                 {i \in 1..Len(teacherSkills) :
                     toLowerCase(teacherSkills[i].name) =
                         toLowerCase(learningSkill.name)})
    IN  IF matchingTeachSkill = Undefined THEN <<>>
        ELSE <<[teacher |-> user,
                learner |-> [id |-> userId],
                skill |-> matchingTeachSkill,
                learningSkill |-> learningSkill]>>

\* (mutant) skill names compared as they are, without toLowerCase
candidateCaseSensitive(learningSkill, user, userId) ==
    IF user.id = userId THEN <<>>
    ELSE
    LET teacherSkills == getSkillsByUser(user.id)
        matchingTeachSkill ==
            Find(teacherSkills,
                 {i \in 1..Len(teacherSkills) :
                     /\ teacherSkills[i].type = "teach"
                     /\ teacherSkills[i].name = learningSkill.name})
    IN  IF matchingTeachSkill = Undefined THEN <<>>
        ELSE
        LET existingMatches == getMatchesByUser(userId)
            alreadyMatched ==
                \E i \in 1..Len(existingMatches) :
                    \/ /\ existingMatches[i].teacherId = user.id
                       /\ existingMatches[i].learnerId = userId
                    \/ /\ existingMatches[i].teacherId = userId
                       /\ existingMatches[i].learnerId = user.id
        IN  IF alreadyMatched THEN <<>>
            ELSE <<[teacher |-> user,
                    learner |-> [id |-> userId],
                    skill |-> matchingTeachSkill,
                    learningSkill |-> learningSkill]>>

\* (mutant) only a match in which the other user teaches counts as matched
candidateOneDirection(learningSkill, user, userId) ==
    IF user.id = userId THEN <<>>
    ELSE
    LET teacherSkills == getSkillsByUser(user.id)
        matchingTeachSkill ==
            Find(teacherSkills,
                 {i \in 1..Len(teacherSkills) :
                     /\ teacherSkills[i].type = "teach"
                     /\ toLowerCase(teacherSkills[i].name) =
                            toLowerCase(learningSkill.name)})
    IN  IF matchingTeachSkill = Undefined THEN <<>>
        ELSE
        LET existingMatches == getMatchesByUser(userId)
            alreadyMatched ==
                \E i \in 1..Len(existingMatches) :
                    /\ existingMatches[i].teacherId = user.id
                    /\ existingMatches[i].learnerId = userId
        IN  IF alreadyMatched THEN <<>>
            ELSE <<[teacher |-> user,
                    learner |-> [id |-> userId],
                    skill |-> matchingTeachSkill,
                    learningSkill |-> learningSkill]>>

\* (mutant) the requesting user is not skipped in the loop over allUsers
candidateWithSelf(learningSkill, user, userId) ==
    LET teacherSkills == getSkillsByUser(user.id)
        matchingTeachSkill ==
            Find(teacherSkills,
                 {i \in 1..Len(teacherSkills) :
                     /\ teacherSkills[i].type = "teach"
                     /\ toLowerCase(teacherSkills[i].name) =
                            toLowerCase(learningSkill.name)})
    IN  IF matchingTeachSkill = Undefined THEN <<>>
        ELSE
        LET existingMatches == getMatchesByUser(userId)
            alreadyMatched ==
                \E i \in 1..Len(existingMatches) :
                    \/ /\ existingMatches[i].teacherId = user.id
                       /\ existingMatches[i].learnerId = userId
                    \/ /\ existingMatches[i].teacherId = userId
                       /\ existingMatches[i].learnerId = user.id
        IN  IF alreadyMatched THEN <<>>
            ELSE <<[teacher |-> user,
                    learner |-> [id |-> userId],
                    skill |-> matchingTeachSkill,
                    learningSkill |-> learningSkill]>>

\* the body of the loop over allUsers: what one user adds to suggestions
\* (mutant) only a match over the teach skill found counts as a match
candidateSameSkillOnly(learningSkill, user, userId) ==
    IF user.id = userId THEN <<>>
    ELSE
    LET teacherSkills == getSkillsByUser(user.id)
        matchingTeachSkill ==
            Find(teacherSkills,
                 {i \in 1..Len(teacherSkills) :
                     /\ teacherSkills[i].type = "teach"
                     /\ toLowerCase(teacherSkills[i].name) =
                            toLowerCase(learningSkill.name)})
    IN  IF matchingTeachSkill = Undefined THEN <<>>
        ELSE
        LET existingMatches == getMatchesByUser(userId)
            alreadyMatched ==
                \E i \in 1..Len(existingMatches) :
                    /\ existingMatches[i].skillId = matchingTeachSkill.id
                    /\ \/ /\ existingMatches[i].teacherId = user.id
                          /\ existingMatches[i].learnerId = userId
                       \/ /\ existingMatches[i].teacherId = userId
                          /\ existingMatches[i].learnerId = user.id
        IN  IF alreadyMatched THEN <<>>
            ELSE <<[teacher |-> user,
                    learner |-> [id |-> userId],
                    skill |-> matchingTeachSkill,
                    learningSkill |-> learningSkill]>>

candidate(learningSkill, user, userId) ==
    IF user.id = userId THEN <<>>
    ELSE
    LET teacherSkills == getSkillsByUser(user.id)
        matchingTeachSkill ==
            Find(teacherSkills,
                 {i \in 1..Len(teacherSkills) :
                     /\ teacherSkills[i].type = "teach"
                     /\ toLowerCase(teacherSkills[i].name) =
                            toLowerCase(learningSkill.name)})
    IN  IF matchingTeachSkill = Undefined THEN <<>>
        ELSE
        LET existingMatches == getMatchesByUser(userId)
            alreadyMatched ==
                \E i \in 1..Len(existingMatches) :
                    \/ /\ existingMatches[i].teacherId = user.id
                       /\ existingMatches[i].learnerId = userId
                    \/ /\ existingMatches[i].teacherId = userId
                       /\ existingMatches[i].learnerId = user.id
        IN  IF alreadyMatched THEN <<>>
            ELSE <<[teacher |-> user,
                    learner |-> [id |-> userId],
                    skill |-> matchingTeachSkill,
                    learningSkill |-> learningSkill]>>

\* (mutant) the candidates of the users collected last user first
RECURSIVE forAllUsersReversed(_, _, _)
forAllUsersReversed(learningSkill, allUsers, userId) ==
    IF allUsers = <<>> THEN <<>>
    ELSE forAllUsersReversed(learningSkill, Tail(allUsers), userId)
            \o candidate(learningSkill, Head(allUsers), userId)

\* for (const user of allUsers)
RECURSIVE forAllUsers(_, _, _)
forAllUsers(learningSkill, allUsers, userId) ==
    IF allUsers = <<>> THEN <<>>
    ELSE candidate(learningSkill, Head(allUsers), userId)
            \o forAllUsers(learningSkill, Tail(allUsers), userId)

\* for (const learningSkill of learningSkills)
RECURSIVE forLearningSkills(_, _)
forLearningSkills(learningSkills, userId) ==
    IF learningSkills = <<>> THEN <<>>
    ELSE forAllUsers(Head(learningSkills), getAllUsers, userId)
            \o forLearningSkills(Tail(learningSkills), userId)

\* the body of GET /api/matches/suggestions/:userId
suggest(userId) ==
    LET userSkills == getSkillsByUser(userId)
        learningSkills ==
            SelectSeq(userSkills, LAMBDA skill : skill.type = "learn")
    IN  IF Len(learningSkills) = 0 THEN <<>>
        ELSE forLearningSkills(learningSkills, userId)

\* (mutant) a handler that takes a match id for what it suggests
suggestionsTakingId(param) ==
    LET userId == parseInt(param)
    IN  /\ ret' = Ret("suggestions", userId, param, suggest(userId))
        /\ res' = Response("GET /api/matches/suggestions/:userId", 200,
                           ret'.val)
        /\ currentMatchId' = currentMatchId + 1
        /\ UNCHANGED <<maps, currentUserId, currentSkillId, currentSessionId,
                       currentMessageId, currentExchangeId, currentExpenseId,
                       currentApprovalId, now, assigned>>

\* GET /api/matches/suggestions/:userId
suggestions(param) ==
    LET userId == parseInt(param)
    IN  /\ ret' = Ret("suggestions", userId, param, suggest(userId))
        /\ res' = Response("GET /api/matches/suggestions/:userId", 200,
                           ret'.val)
        /\ UNCHANGED <<maps, counters, now, assigned>>

(***************************************************************************)
(* Requests.  Creation payloads have passed the insert schema (required    *)
(* fields present, optional ones present or omitted); update payloads are  *)
(* request bodies handed to the store as they are.                         *)
(***************************************************************************)
InsertUsers ==
    {[email |-> "new@example.com", password |-> "secret", name |-> "New User"],
     [email |-> "new@example.com", password |-> "secret", name |-> "New User",
      bio |-> "Hello", profilePicture |-> "", location |-> "Paris"]}

InsertSkills ==
    {[userId |-> 1, name |-> "Python", type |-> "teach", level |-> "advanced"],
     [userId |-> 2, name |-> "python", type |-> "learn", level |-> "beginner",
      description |-> "Scripting"]}

InsertMatches ==
    {[teacherId |-> 2, learnerId |-> 1, skillId |-> 2],
     [teacherId |-> 2, learnerId |-> 1, skillId |-> 2, status |-> "declined"]}

InsertSessions ==
    {[matchId |-> 1, scheduledAt |-> 1, duration |-> 60],
     [matchId |-> 1, scheduledAt |-> 1, duration |-> 60,
      status |-> "completed", notes |-> "Bring a laptop"]}

InsertMessages ==
    {[matchId |-> 1, senderId |-> 1, content |-> "Hello"]}

InsertExchanges ==
    {[userId |-> 1, partnerId |-> 2],
     [userId |-> 1, partnerId |-> 2,
      hoursGiven |-> "1.50", hoursReceived |-> "2.00"]}

InsertExpenses ==
    {[userId |-> 1, title |-> "Taxi", amount |-> "12.50", category |-> "travel"],
     [userId |-> 1, title |-> "Taxi", amount |-> "12.50", category |-> "travel",
      description |-> "Airport", status |-> "pending"]}

InsertApprovals ==
    {[expenseId |-> 1, approverId |-> 1, status |-> "approved"],
     [expenseId |-> 1, approverId |-> 1, status |-> "rejected",
      comments |-> "No receipt"]}

UserUpdates == {[name |-> "Johnny"], [id |-> 9]}

SkillUpdates == {[level |-> "intermediate"], [id |-> 9, name |-> "Guitar"]}

MatchUpdates == {[status |-> "completed"], [id |-> 9]}

SessionUpdates == {[status |-> "cancelled"], [notes |-> "Moved", duration |-> 30]}

ExchangeUpdates == {[hoursGiven |-> "3.00"], [hoursReceived |-> "1.00", updatedAt |-> 0]}

ExpenseUpdates ==
    {[status |-> "submitted"], [title |-> "Cab", amount |-> "20.00"],
     [status |-> "pending"]}

ApprovalUpdates == {[comments |-> "Changed"], [status |-> "rejected"]}

\* the ids update and delete requests address: the first record of a type
\* and the first id past every seeded record
IdArgs == {1, 4}

(***************************************************************************)
(* The store specification: every store method, in any order.              *)
(***************************************************************************)
\* a step that calls a store method directly: no response is sent
Op(max) ==
    /\ nops < max
    /\ nops' = nops + 1
    /\ res' = NoResponse
    /\ inflight' = inflight

\* a step that runs a request handler, which sends the response itself
Req(max) ==
    /\ nops < max
    /\ nops' = nops + 1
    /\ inflight' = inflight

\* a step of the approval request, which is answered after its second step
Step(max) ==
    /\ nops < max
    /\ nops' = nops + 1

Next ==
    \/ \E t \in Times : Op(MaxOps) /\ clockStep(t)
    \/ \E p \in InsertUsers : Op(MaxOps) /\ createUser(p)
    \/ \E id \in IdArgs, u \in UserUpdates : Op(MaxOps) /\ updateUser(id, u)
    \/ \E p \in InsertSkills : Op(MaxOps) /\ createSkill(p)
    \/ \E id \in IdArgs, u \in SkillUpdates : Op(MaxOps) /\ updateSkill(id, u)
    \/ \E id \in IdArgs : Op(MaxOps) /\ deleteSkill(id)
    \/ \E p \in InsertMatches : Op(MaxOps) /\ createMatch(p)
    \/ \E id \in IdArgs, u \in MatchUpdates : Op(MaxOps) /\ updateMatch(id, u)
    \/ \E p \in InsertSessions : Op(MaxOps) /\ createSession(p)
    \/ \E id \in IdArgs, u \in SessionUpdates : Op(MaxOps) /\ updateSession(id, u)
    \/ \E p \in InsertMessages : Op(MaxOps) /\ createMessage(p)
    \/ \E p \in InsertExchanges : Op(MaxOps) /\ createExchange(p)
    \/ \E id \in IdArgs, u \in ExchangeUpdates : Op(MaxOps) /\ updateExchange(id, u)
    \/ \E p \in InsertExpenses : Op(MaxOps) /\ createExpense(p)
    \/ \E id \in IdArgs, u \in ExpenseUpdates : Op(MaxOps) /\ updateExpense(id, u)
    \/ \E id \in IdArgs : Op(MaxOps) /\ deleteExpense(id)
    \/ \E p \in InsertApprovals : Op(MaxOps) /\ createApproval(p)
    \/ \E id \in IdArgs, u \in ApprovalUpdates : Op(MaxOps) /\ updateApproval(id, u)

Spec == Init /\ [][Next]_vars

(***************************************************************************)
(* Properties of the entity store.                                         *)
(***************************************************************************)
CreateOps == {"createUser", "createSkill", "createMatch", "createSession",
              "createMessage", "createExchange", "createExpense",
              "createApproval"}

UpdateOps == {"updateUser", "updateSkill", "updateMatch", "updateSession",
              "updateExchange", "updateExpense", "updateApproval"}

\* the entity type a store method works on
EntityOf(op) ==
    CASE op \in {"createUser", "updateUser"} -> "user"
      [] op \in {"createSkill", "updateSkill", "deleteSkill"} -> "skill"
      [] op \in {"createMatch", "updateMatch"} -> "match"
      [] op \in {"createSession", "updateSession"} -> "session"
      [] op \in {"createMessage"} -> "message"
      [] op \in {"createExchange", "updateExchange"} -> "exchange"
      [] op \in {"createExpense", "updateExpense", "deleteExpense"} -> "expense"
      [] op \in {"createApproval", "updateApproval"} -> "approval"

\* the eight maps and the eight id counters, by entity type
Store ==
    [user |-> users, skill |-> skills, match |-> matches,
     session |-> sessions, message |-> messages, exchange |-> exchanges,
     expense |-> expenses, approval |-> approvals]

Counter ==
    [user |-> currentUserId, skill |-> currentSkillId,
     match |-> currentMatchId, session |-> currentSessionId,
     message |-> currentMessageId, exchange |-> currentExchangeId,
     expense |-> currentExpenseId, approval |-> currentApprovalId]

Entities == DOMAIN Store

Before(op) == Store[EntityOf(op)]

After(op) == Store'[EntityOf(op)]

\* C1: for each of the eight entity types, the get of the id that the create
\* just returned yields a record equal to the one create returned.
C1_CreateThenGet ==
    /\ ret.op = "createUser" => getUser(ret.val.id) = ret.val
    /\ ret.op = "createSkill" => getSkill(ret.val.id) = ret.val
    /\ ret.op = "createMatch" => getMatch(ret.val.id) = ret.val
    /\ ret.op = "createSession" => getSession(ret.val.id) = ret.val
    /\ ret.op = "createMessage" => getMessage(ret.val.id) = ret.val
    /\ ret.op = "createExchange" => getExchange(ret.val.id) = ret.val
    /\ ret.op = "createExpense" => getExpense(ret.val.id) = ret.val
    /\ ret.op = "createApproval" => getApproval(ret.val.id) = ret.val

\* a second expense was created in a store that other operations had changed
C1_Witness ==
    /\ ret.op = "createExpense"
    /\ ret.val.id = 2
    /\ nops = 3
    /\ getExpense(2) = ret.val

\* C2: deleteSkill and deleteExpense of a stored record return true and
\* leave get(id) undefined; a delete of an id that is no longer stored (a
\* second delete) returns false and changes no map and no counter.
C2_DeleteTwice ==
    [][ret'.op \in {"deleteSkill", "deleteExpense"} =>
          LET id == ret'.id
              op == ret'.op
          IN  /\ MapGet(Before(op), id) # Undefined =>
                    /\ ret'.val = TRUE
                    /\ MapGet(After(op), id) = Undefined
              /\ MapGet(Before(op), id) = Undefined =>
                    /\ ret'.val = FALSE
                    /\ MapGet(After(op), id) = Undefined
                    /\ Store' = Store
                    /\ Counter' = Counter]_vars

\* expense 1 was created, deleted, and deleted again
C2_Witness ==
    /\ ret.op = "deleteExpense"
    /\ ret.id = 1
    /\ ret.val = FALSE
    /\ currentExpenseId = 2
    /\ nops = 3

\* the fields the store stamps itself on every update
Managed(op) ==
    IF op \in {"updateExchange", "updateExpense"} THEN {"updatedAt"} ELSE {}

\* C3: an update of a stored record keeps every field that is not in the
\* payload (updatedAt of exchanges and expenses excepted), adds no field
\* from elsewhere, and leaves every other record and map as it was.
C3_UpdateFrame ==
    [][(ret'.op \in UpdateOps /\ MapGet(Before(ret'.op), ret'.id) # Undefined) =>
          LET op == ret'.op
              id == ret'.id
              old == MapGet(Before(op), id)
              new == MapGet(After(op), id)
              given == DOMAIN ret'.arg \cup Managed(op)
          IN  /\ new # Undefined
              /\ DOMAIN new \subseteq DOMAIN old \cup given
              /\ \A f \in DOMAIN old \ given :
                    f \in DOMAIN new /\ new[f] = old[f]
              /\ Len(After(op)) = Len(Before(op))
              /\ \A i \in 1..Len(Before(op)) :
                    Before(op)[i].key # id => After(op)[i] = Before(op)[i]
              /\ \A e \in Entities \ {EntityOf(op)} : Store'[e] = Store[e]
              /\ Counter' = Counter]_vars

\* an exchange was updated after the clock moved: its updatedAt was refreshed
\* and its untouched fields are those of the creation
C3_Witness ==
    /\ ret.op = "updateExchange"
    /\ ret.val # Undefined
    /\ ret.val.updatedAt # ret.val.createdAt
    /\ ret.val.userId = 1

\* C4: per entity type, the ids handed out by the constructor and by create
\* form a strictly increasing sequence, whatever was deleted in between.
C4_IdsIncrease ==
    \A e \in DOMAIN assigned :
        \A i, j \in 1..Len(assigned[e]) :
            i < j => assigned[e][i] < assigned[e][j]

\* a skill was created after a seeded skill had been deleted
C4_Witness ==
    /\ ret.op = "createSkill"
    /\ Len(skills) = 3
    /\ ret.val.id = 4
    /\ assigned.skill = <<1, 2, 3, 4>>

\* C5: in every map, the record stored under key k has id k, so get(k).id = k.
C5_IdImmutable ==
    \A e \in Entities :
        \A i \in 1..Len(Store[e]) :
            /\ Store[e][i].val.id = Store[e][i].key
            /\ MapGet(Store[e], Store[e][i].key).id = Store[e][i].key

\* C6: get of an id that is not a key of the map is undefined; an update
\* addressed to such an id returns undefined and changes no map and no
\* counter.
C6_MissingId ==
    [][/\ \A e \in Entities, id \in 1..9 :
             id \notin MapKeys(Store'[e]) => MapGet(Store'[e], id) = Undefined
       /\ (ret'.op \in UpdateOps /\ ret'.id \notin MapKeys(Before(ret'.op))) =>
             /\ ret'.val = Undefined
             /\ Store' = Store
             /\ Counter' = Counter]_vars

\* an update addressed an id that no match has, next to the seeded match
C6_Witness ==
    /\ ret.op = "updateMatch"
    /\ ret.id = 4
    /\ ret.val = Undefined
    /\ getMatch(4) = Undefined
    /\ Len(matches) = 1

UserFields == {"id", "email", "password", "name", "bio", "profilePicture",
               "location", "createdAt"}

SkillFields == {"id", "userId", "name", "type", "level", "description",
                "createdAt"}

MatchFields == {"id", "teacherId", "learnerId", "skillId", "status",
                "createdAt"}

SessionFields == {"id", "matchId", "scheduledAt", "duration", "status",
                  "notes", "createdAt"}

ExchangeFields == {"id", "userId", "partnerId", "hoursGiven",
                   "hoursReceived", "createdAt", "updatedAt"}

\* the field f of the created record r is the default d when the payload p
\* omits it, and the payload's value otherwise
Defaulted(p, r, f, d) ==
    /\ f \in DOMAIN r
    /\ f \notin DOMAIN p => r[f] = d

C8_FreshExpensePending ==
    ret.op = "createExpense" =>
        /\ Defaulted(ret.arg, ret.val, "status", "pending")
        /\ ret.val.approvedBy = NullNum
        /\ ret.val.approvedAt = NullNum
        /\ ret.val.submittedAt = NullNum

(***************************************************************************)
(* The message specification: messages of two matches arrive in any        *)
(* interleaving while the wall clock moves either way.                     *)
(***************************************************************************)
MessageInputs ==
    {[matchId |-> m, senderId |-> u, content |-> "Hello"] :
        m \in {1, 2}, u \in {1, 2}}

NextMsg ==
    \/ \E t \in Times : Op(MaxMsgOps) /\ clockStep(t)
    \/ \E p \in MessageInputs : Op(MaxMsgOps) /\ createMessage(p)
    \/ \E m \in {"1", "2"} : Req(MaxMsgOps) /\ getMessages(m)

SpecMsg == Init /\ [][NextMsg]_vars

\* the stored messages of match m
StoredOfMatch(m) ==
    {messages[i].val : i \in {j \in 1..Len(messages) :
                                 messages[j].val.matchId = m}}

\* C9: getMessagesByMatch(m) holds exactly the stored messages of match m,
\* each once, by ascending createdAt and, at equal createdAt, ascending id.
C9_MessagesAscending ==
    \A m \in {1, 2, 3} :
        LET r == getMessagesByMatch(m)
        IN  /\ {r[i] : i \in 1..Len(r)} = StoredOfMatch(m)
            /\ Len(r) = Cardinality(StoredOfMatch(m))
            /\ \A i, j \in 1..Len(r) :
                  i < j =>
                     \/ r[i].createdAt < r[j].createdAt
                     \/ /\ r[i].createdAt = r[j].createdAt
                        /\ r[i].id < r[j].id

\* match 1 was read after a later message got an earlier timestamp than a
\* message stored before it, between messages of match 2
C9_Witness ==
    /\ ret.op = "getMessages"
    /\ ret.id = 1
    /\ Len(ret.val) = 2
    /\ ret.val[1].id > ret.val[2].id
    /\ ret.val[1].createdAt < ret.val[2].createdAt

(***************************************************************************)
(* The suggestion specification: users, skills and matches change and the  *)
(* suggestions of a user are computed.                                     *)
(***************************************************************************)
SuggestUsers ==
    {[email |-> "new@example.com", password |-> "secret", name |-> "New User"]}

SuggestSkills ==
    {[userId |-> 3, name |-> "Python", type |-> "learn", level |-> "beginner"],
     [userId |-> 1, name |-> "python", type |-> "teach", level |-> "advanced"],
     [userId |-> 1, name |-> "Python", type |-> "learn", level |-> "beginner"],
     [userId |-> 1, name |-> "PYTHON", type |-> "teach", level |-> "beginner"],
     [userId |-> 2, name |-> "Guitar", type |-> "teach", level |-> "advanced"],
     [userId |-> 3, name |-> "python", type |-> "teach", level |-> "advanced"],
     [userId |-> 2, name |-> "Python", type |-> "teach",
      level |-> "intermediate"]}

SuggestMatches ==
    {[teacherId |-> 1, learnerId |-> 3, skillId |-> 4],
     [teacherId |-> 3, learnerId |-> 1, skillId |-> 4, status |-> "declined"]}

SuggestMatchUpdates ==
    {[status |-> "declined"], [status |-> "accepted"], [status |-> "completed"]}

SuggestSkillUpdates == {[type |-> "learn"]}

UserIdArgs == 1..4

\* the :userId path parameters sent: the ids of UserIdArgs and a malformed one
UserIdParams == {"1", "2", "3", "4", "abc"}

NextSuggest ==
    \/ \E p \in SuggestUsers : Op(MaxSugOps) /\ createUser(p)
    \/ \E p \in SuggestSkills : Op(MaxSugOps) /\ createSkill(p)
    \/ \E id \in {4}, u \in SuggestSkillUpdates :
          Op(MaxSugOps) /\ updateSkill(id, u)
    \/ \E id \in {4} : Op(MaxSugOps) /\ deleteSkill(id)
    \/ \E p \in SuggestMatches : Op(MaxSugOps) /\ createMatch(p)
    \/ \E id \in {2}, u \in SuggestMatchUpdates :
          Op(MaxSugOps) /\ updateMatch(id, u)
    \/ \E s \in UserIdParams : Req(MaxSugOps) /\ suggestions(s)

SpecSuggest == Init /\ [][NextSuggest]_vars

StoredSkills == {skills[i].val : i \in 1..Len(skills)}

StoredUsers == {users[i].val : i \in 1..Len(users)}

\* the stored users other than u that own a teach skill named like a learn
\* skill of u
TeachersFor(u) ==
    {v \in StoredUsers :
        /\ v.id # u
        /\ \E l, t \in StoredSkills :
              /\ l.userId = u /\ l.type = "learn"
              /\ t.userId = v.id /\ t.type = "teach"
              /\ toLowerCase(t.name) = toLowerCase(l.name)}

\* C10: every candidate of suggest(u) pairs a stored learn skill of u with a
\* stored teach skill of the returned teacher, a stored user, and the two
\* names are equal ignoring case; no user without such a teach skill is
\* returned; and a learner with the one learn skill "Python", no match and
\* exactly one other user teaching "python" gets exactly that one teacher.
C10_SuggestSound ==
    \A u \in UserIdArgs :
        LET r == suggest(u)
            mine == {l \in StoredSkills : l.userId = u /\ l.type = "learn"}
        IN  /\ \A i \in 1..Len(r) :
                  /\ r[i].learningSkill \in StoredSkills
                  /\ r[i].learningSkill.userId = u
                  /\ r[i].learningSkill.type = "learn"
                  /\ r[i].skill \in StoredSkills
                  /\ r[i].teacher \in StoredUsers
                  /\ r[i].skill.userId = r[i].teacher.id
                  /\ r[i].skill.type = "teach"
                  /\ toLowerCase(r[i].skill.name) =
                        toLowerCase(r[i].learningSkill.name)
                  /\ r[i].teacher \in TeachersFor(u)
            /\ ( /\ Cardinality(mine) = 1
                 /\ \A l \in mine : l.name = "Python"
                 /\ Cardinality(TeachersFor(u)) = 1
                 /\ getMatchesByUser(u) = <<>> )
               => /\ Len(r) = 1
                  /\ r[1].teacher \in TeachersFor(u)

\* the suggestions of the new user 3, who learns "Python", were computed
\* while john teaches "python" and sarah teaches nothing of that name
C10_Witness ==
    /\ ret.op = "suggestions"
    /\ ret.id = 3
    /\ Len(ret.val) = 1
    /\ ret.val[1].teacher.id = 1
    /\ ret.val[1].skill.name = "python"
    /\ ret.val[1].learningSkill.name = "Python"
    /\ Cardinality(StoredUsers) = 3
    /\ ret.val = suggest(3)


\* the stored learn skills of user u
LearnSkills(u) == {l \in StoredSkills : l.userId = u /\ l.type = "learn"}

\* the places in the skill map of the teach skills of v named like l
TeachHits(v, l) ==
    {i \in 1..Len(skills) :
        /\ skills[i].val.userId = v.id
        /\ skills[i].val.type = "teach"
        /\ toLowerCase(skills[i].val.name) = toLowerCase(l.name)}

\* some stored match has u and v as its teacher and learner, either way round
Linked(u, v) ==
    \E i \in 1..Len(matches) :
        \/ matches[i].val.teacherId = v /\ matches[i].val.learnerId = u
        \/ matches[i].val.teacherId = u /\ matches[i].val.learnerId = v

\* the ids of the teachers of the candidates r
Teachers(r) == {r[i].teacher.id : i \in 1..Len(r)}

\* C11 (as stated): for every learn skill l of u and every teach skill t of
\* another stored user v that is named like l, v not linked to u by a match,
\* suggest(u) holds exactly one candidate {teacher: v, skill: t,
\* learningSkill: l}.
C11_CompletePerPair ==
    \A u \in UserIdArgs :
        LET r == suggest(u)
        IN  \A l \in LearnSkills(u), v \in StoredUsers :
                (v.id # u /\ ~Linked(u, v.id)) =>
                    \A h \in TeachHits(v, l) :
                        Cardinality({k \in 1..Len(r) :
                                        /\ r[k].teacher = v
                                        /\ r[k].skill = skills[h].val
                                        /\ r[k].learningSkill = l}) = 1

\* C11 (amended): for every learn skill l of u and every other stored user v
\* who owns at least one teach skill named like l and is not linked to u by
\* a match, suggest(u) holds exactly one candidate with teacher v and
\* learningSkill l, and its skill is the earliest stored of those teach
\* skills of v - one candidate per (l, v), also when u owns several learn
\* skills of that name.
C11_CompletePerTeacher ==
    \A u \in UserIdArgs :
        LET r == suggest(u)
        IN  \A l \in LearnSkills(u), v \in StoredUsers :
                (v.id # u /\ ~Linked(u, v.id) /\ TeachHits(v, l) # {}) =>
                    LET first == CHOOSE h \in TeachHits(v, l) :
                                     \A g \in TeachHits(v, l) : h <= g
                        mine == {k \in 1..Len(r) :
                                    r[k].teacher = v /\ r[k].learningSkill = l}
                    IN  /\ Cardinality(mine) = 1
                        /\ \A k \in mine : r[k].skill = skills[first].val

\* the suggestions of user 3, who learns "Python", were computed while john
\* teaches both "python" and "PYTHON": one candidate, with the earlier skill
C11_Witness ==
    /\ ret.op = "suggestions"
    /\ ret.id = 3
    /\ \E l \in LearnSkills(3) : Cardinality(TeachHits(john, l)) = 2
    /\ Len(ret.val) = 1
    /\ ret.val[1].teacher = john
    /\ ret.val[1].skill.id = 4
    /\ ret.val = suggest(3)

\* C12: in every state, suggest(u) holds no teacher t that a stored match
\* links to u, as teacher or as learner and whatever the status of the
\* match; in particular not right after the match was created, and not
\* after its status was changed.
C12_MatchedNeverSuggested ==
    /\ \A u, t \in UserIdArgs :
          Linked(u, t) => t \notin Teachers(suggest(u))
    /\ (ret.op \in {"createMatch", "updateMatch"} /\ ret.val # Undefined) =>
          /\ Linked(ret.val.learnerId, ret.val.teacherId)
          /\ ret.val.teacherId \notin Teachers(suggest(ret.val.learnerId))
          /\ ret.val.learnerId \notin Teachers(suggest(ret.val.teacherId))

\* john teaches what user 3 learns, a match was created between them and
\* then declined: user 3 is suggested nobody
C12_Witness ==
    /\ ret.op = "updateMatch"
    /\ ret.val # Undefined
    /\ ret.val.status = "declined"
    /\ ret.val.id = 2
    /\ Linked(3, 1)
    /\ john \in TeachersFor(3)
    /\ suggest(3) = <<>>

\* C13: suggest(u) is the empty list, sent with status 200, when u owns no
\* learn skill: for a stored user without one, for an id no user has and
\* for a path parameter that is not a number.
C13_NoLearnSkillEmpty ==
    /\ \A u \in UserIdArgs \cup {NaN} :
          LearnSkills(u) = {} => suggest(u) = <<>>
    /\ (ret.op = "suggestions" /\ LearnSkills(ret.id) = {}) =>
          ret.val = <<>> /\ res.status = 200 /\ res.body = <<>>
    /\ (ret.op = "suggestions" /\ ret.arg = "abc") =>
          ret.val = <<>> /\ res.status = 200 /\ res.body = <<>>

\* a malformed id was answered with the empty list while another user has
\* suggestions
C13_Witness ==
    /\ ret.op = "suggestions"
    /\ ret.arg = "abc"
    /\ ret.id = NaN
    /\ ret.val = <<>>
    /\ res.status = 200
    /\ \E u \in UserIdArgs : suggest(u) # <<>>
    /\ suggest(4) = <<>>
    /\ suggest(1) = <<>>

\* C14: no candidate of suggest(u) has u as its teacher, and no candidate's
\* teacher owns the candidate's learning skill.
C14_NeverSelf ==
    \A u \in UserIdArgs :
        LET r == suggest(u)
        IN  /\ u \notin Teachers(r)
            /\ \A i \in 1..Len(r) :
                  r[i].teacher.id # r[i].learningSkill.userId

\* john learns "Python" and teaches "python" himself; his suggestions hold
\* user 3, who teaches it too, and not john
C14_Witness ==
    /\ ret.op = "suggestions"
    /\ ret.id = 1
    /\ \E l \in LearnSkills(1) : TeachHits(john, l) # {}
    /\ Len(ret.val) = 1
    /\ ret.val[1].teacher.id = 3

\* the place of the record x in the map m
PosOf(m, x) == CHOOSE i \in 1..Len(m) : m[i].val = x

\* a was created before b: it comes first in the map and has the lower id
Earlier(m, a, b) == PosOf(m, a) < PosOf(m, b) /\ a.id < b.id

\* the candidates r go by creation order of the learn skill and, within one
\* learn skill, by creation order of the teacher
Ordered(r) ==
    \A i, j \in 1..Len(r) :
        i < j =>
            \/ Earlier(skills, r[i].learningSkill, r[j].learningSkill)
            \/ /\ r[i].learningSkill = r[j].learningSkill
               /\ Earlier(users, r[i].teacher, r[j].teacher)

\* C15: in every state, the candidates of suggest(u) are ordered by the
\* creation order of u's learn skills and then of the teachers; and the
\* list a suggestions request was answered with is the list a second
\* request for the same user gets in the state the first one left.
C15_SuggestOrder ==
    /\ \A u \in UserIdArgs : Ordered(suggest(u))
    /\ ret.op = "suggestions" =>
          /\ ret.val = suggest(ret.id)
          /\ res.body = suggest(parseInt(ret.arg))

\* user 3 learns "Python"; john and sarah, created in that order, both
\* teach it and are suggested in that order
C15_Witness ==
    /\ ret.op = "suggestions"
    /\ ret.id = 3
    /\ Len(ret.val) = 2
    /\ ret.val[1].teacher = john
    /\ ret.val[2].teacher = sarah
    /\ Ordered(ret.val)


(***************************************************************************)
(* The request handlers that write: a body is validated with the insert    *)
(* schema (POST) or handed to the store as it is (PUT).                    *)
(***************************************************************************)
\* the integer and timestamp columns; every other column is text
IntFields == {"id", "userId", "teacherId", "learnerId", "skillId", "matchId",
              "senderId", "partnerId", "scheduledAt", "duration",
              "createdAt", "updatedAt"}

\* the value v sent for the field f is JSON null
IsNull(f, v) == IF f \in IntFields THEN v = NullNum ELSE v = Null

\* createInsertSchema(table).omit(...): a notNull column without default is
\* required, a notNull column with a default may be omitted, a nullable
\* column may be omitted or null
insertUserSchema ==
    [required |-> {"email", "password", "name"},
     optional |-> {},
     nullable |-> {"bio", "profilePicture", "location"}]

insertSkillSchema ==
    [required |-> {"userId", "name", "type", "level"},
     optional |-> {},
     nullable |-> {"description"}]

insertMatchSchema ==
    [required |-> {"teacherId", "learnerId", "skillId"},
     optional |-> {"status"},
     nullable |-> {}]

insertSessionSchema ==
    [required |-> {"matchId", "scheduledAt", "duration"},
     optional |-> {"status"},
     nullable |-> {"notes"}]

insertExchangeSchema ==
    [required |-> {"userId", "partnerId"},
     optional |-> {"hoursGiven", "hoursReceived"},
     nullable |-> {}]

\* schema.parse(body) does not throw: every required field is there and no
\* field that must hold a string or a number holds null
Accepts(schema, body) ==
    /\ schema.required \subseteq DOMAIN body
    /\ \A f \in DOMAIN body \cap (schema.required \cup schema.optional) :
          ~IsNull(f, body[f])

\* the value of schema.parse(body): the body without the keys the schema
\* does not know
Parse(schema, body) ==
    [f \in DOMAIN body \cap
           (schema.required \cup schema.optional \cup schema.nullable) |->
        body[f]]

\* const { password: _, ...userWithoutPassword } = user
userWithoutPassword(user) == [f \in DOMAIN user \ {"password"} |-> user[f]]

\* the answer of a handler that stops without a store write
Reject(route, body, status, message) ==
    /\ ret' = Ret(route, 0, body, Undefined)
    /\ res' = Response(route, status, [message |-> message])
    /\ UNCHANGED <<maps, counters, now, assigned>>

\* (mutant) a registration that does not look the email up first
registerUnchecked(body) ==
    IF ~Accepts(insertUserSchema, body)
    THEN Reject("POST /api/auth/register", body, 400, "Invalid request data")
    ELSE /\ createUser(Parse(insertUserSchema, body))
         /\ res' = Response("POST /api/auth/register", 201,
                            [user |-> userWithoutPassword(ret'.val)])

\* POST /api/auth/register
register(body) ==
    IF ~Accepts(insertUserSchema, body)
    THEN Reject("POST /api/auth/register", body, 400, "Invalid request data")
    ELSE
    LET userData == Parse(insertUserSchema, body)
        existingEmail == getUserByEmail(userData.email)
    IN  IF existingEmail # Undefined
        THEN Reject("POST /api/auth/register", body, 409,
                    "Email already exists")
        ELSE /\ createUser(userData)
             /\ res' = Response("POST /api/auth/register", 201,
                                [user |-> userWithoutPassword(ret'.val)])

\* PUT /api/users/:id
putUser(param, updates) ==
    /\ updateUser(parseInt(param), updates)
    /\ res' = IF ret'.val = Undefined
              THEN Response("PUT /api/users/:id", 404,
                            [message |-> "User not found"])
              ELSE Response("PUT /api/users/:id", 200,
                            userWithoutPassword(ret'.val))

\* POST /api/skills
postSkill(body) ==
    IF ~Accepts(insertSkillSchema, body)
    THEN Reject("POST /api/skills", body, 400, "Invalid skill data")
    ELSE /\ createSkill(Parse(insertSkillSchema, body))
         /\ res' = Response("POST /api/skills", 201, ret'.val)

\* PUT /api/skills/:id
putSkill(param, updates) ==
    /\ updateSkill(parseInt(param), updates)
    /\ res' = IF ret'.val = Undefined
              THEN Response("PUT /api/skills/:id", 404,
                            [message |-> "Skill not found"])
              ELSE Response("PUT /api/skills/:id", 200, ret'.val)

\* POST /api/matches
postMatch(body) ==
    IF ~Accepts(insertMatchSchema, body)
    THEN Reject("POST /api/matches", body, 400, "Invalid match data")
    ELSE /\ createMatch(Parse(insertMatchSchema, body))
         /\ res' = Response("POST /api/matches", 201, ret'.val)

\* PUT /api/matches/:id
putMatch(param, updates) ==
    /\ updateMatch(parseInt(param), updates)
    /\ res' = IF ret'.val = Undefined
              THEN Response("PUT /api/matches/:id", 404,
                            [message |-> "Match not found"])
              ELSE Response("PUT /api/matches/:id", 200, ret'.val)

\* POST /api/sessions
postSession(body) ==
    IF ~Accepts(insertSessionSchema, body)
    THEN Reject("POST /api/sessions", body, 400, "Invalid session data")
    ELSE /\ createSession(Parse(insertSessionSchema, body))
         /\ res' = Response("POST /api/sessions", 201, ret'.val)

\* PUT /api/sessions/:id
putSession(param, updates) ==
    /\ updateSession(parseInt(param), updates)
    /\ res' = IF ret'.val = Undefined
              THEN Response("PUT /api/sessions/:id", 404,
                            [message |-> "Session not found"])
              ELSE Response("PUT /api/sessions/:id", 200, ret'.val)

\* POST /api/exchanges
postExchange(body) ==
    IF ~Accepts(insertExchangeSchema, body)
    THEN Reject("POST /api/exchanges", body, 400, "Invalid exchange data")
    ELSE /\ createExchange(Parse(insertExchangeSchema, body))
         /\ res' = Response("POST /api/exchanges", 201, ret'.val)

\* PUT /api/exchanges/:id
putExchange(param, updates) ==
    /\ updateExchange(parseInt(param), updates)
    /\ res' = IF ret'.val = Undefined
              THEN Response("PUT /api/exchanges/:id", 404,
                            [message |-> "Exchange not found"])
              ELSE Response("PUT /api/exchanges/:id", 200, ret'.val)

(***************************************************************************)
(* The request specification: registrations and the POST and PUT requests  *)
(* on users, skills, matches, sessions and exchanges, well-formed or not.   *)
(***************************************************************************)
\* requests per behaviour of the request specification
MaxReqs == 3

RegisterBodies ==
    {[email |-> "new@example.com", password |-> "secret", name |-> "New User"],
     [email |-> "john@example.com", password |-> "secret",
      name |-> "Other John", bio |-> Null],
     [email |-> "new@example.com", name |-> "No Password"],
     [email |-> "john@example.com", password |-> "secret", name |-> Null]}

UserBodies ==
    {[name |-> "Johnny"], [email |-> "john@example.com"],
     [email |-> "new@example.com"]}

SkillBodies ==
    {[userId |-> 1, name |-> "Python", type |-> "teach", level |-> "advanced",
      description |-> Null],
     [userId |-> 1, name |-> "Python", type |-> "teach"],
     [userId |-> 1, name |-> Null, type |-> "teach", level |-> "advanced"]}

SkillPutBodies == {[level |-> "intermediate"], [name |-> Null]}

MatchBodies ==
    {[teacherId |-> 2, learnerId |-> 1, skillId |-> 2],
     [teacherId |-> 2, learnerId |-> 1],
     [teacherId |-> 2, learnerId |-> 1, skillId |-> 2, status |-> Null],
     [teacherId |-> 2, learnerId |-> 1, skillId |-> 2,
      status |-> "archived"]}

MatchPutBodies ==
    {[status |-> "completed"], [teacherId |-> NullNum],
     [status |-> "archived"]}

SessionBodies ==
    {[matchId |-> 1, scheduledAt |-> 1, duration |-> 60, notes |-> Null],
     [matchId |-> 1, scheduledAt |-> 1],
     [matchId |-> 1, scheduledAt |-> 1, duration |-> NullNum]}

SessionPutBodies == {[status |-> "cancelled"], [duration |-> NullNum]}

ExchangeBodies ==
    {[userId |-> 1, partnerId |-> 2, hoursGiven |-> "1.50"],
     [userId |-> 1],
     [userId |-> 1, partnerId |-> 2, hoursGiven |-> Null]}

ExchangePutBodies == {[hoursGiven |-> "3.00"], [hoursReceived |-> Null]}

\* the :id path parameters sent: the first record of a type, an id no
\* record of the type has yet, and a malformed one
IdParams == {"1", "4", "abc"}

NextHttp ==
    \/ \E b \in RegisterBodies : Req(MaxReqs) /\ register(b)
    \/ \E s \in {"2", "4"}, b \in UserBodies : Req(MaxReqs) /\ putUser(s, b)
    \/ \E b \in SkillBodies : Req(MaxReqs) /\ postSkill(b)
    \/ \E s \in IdParams, b \in SkillPutBodies : Req(MaxReqs) /\ putSkill(s, b)
    \/ \E b \in MatchBodies : Req(MaxReqs) /\ postMatch(b)
    \/ \E s \in IdParams, b \in MatchPutBodies : Req(MaxReqs) /\ putMatch(s, b)
    \/ \E b \in SessionBodies : Req(MaxReqs) /\ postSession(b)
    \/ \E s \in IdParams, b \in SessionPutBodies :
          Req(MaxReqs) /\ putSession(s, b)
    \/ \E b \in ExchangeBodies : Req(MaxReqs) /\ postExchange(b)
    \/ \E s \in IdParams, b \in ExchangePutBodies :
          Req(MaxReqs) /\ putExchange(s, b)

SpecHttp == Init /\ [][NextHttp]_vars

\* the stored users whose email is e
UsersWithEmail(e) == {i \in 1..Len(users) : users[i].val.email = e}

\* C16: a registration whose payload passes the insert schema and whose
\* email a stored user already has is answered 409, stores no user and
\* leaves the user id counter; one whose email no stored user has is
\* answered 201 and adds exactly one user, with that email and the next id.
C16_RegisterDuplicate ==
    [][(res'.route = "POST /api/auth/register"
          /\ Accepts(insertUserSchema, ret'.arg)) =>
          LET email == ret'.arg.email
          IN  /\ UsersWithEmail(email) # {} =>
                    /\ res'.status = 409
                    /\ users' = users
                    /\ currentUserId' = currentUserId
              /\ UsersWithEmail(email) = {} =>
                    /\ res'.status = 201
                    /\ Len(users') = Len(users) + 1
                    /\ SubSeq(users', 1, Len(users)) = users
                    /\ users'[Len(users')].val.email = email
                    /\ users'[Len(users')].val.id = currentUserId
                    /\ currentUserId' = currentUserId + 1]_vars

\* new@example.com was registered and then registered again: the second
\* request was answered 409 and the store holds the three users of before
C16_Witness ==
    /\ res.route = "POST /api/auth/register"
    /\ res.status = 409
    /\ ret.arg.email = "new@example.com"
    /\ Len(users) = 3
    /\ currentUserId = 4

\* C17: no two stored users have the same email.
C17_EmailUnique ==
    \A i, j \in 1..Len(users) :
        i # j => users[i].val.email # users[j].val.email

\* the routes C18 is about
ValidatedPosts ==
    [s \in {"POST /api/skills"} |-> insertSkillSchema]
        @@ [s \in {"POST /api/matches"} |-> insertMatchSchema]
        @@ [s \in {"POST /api/sessions"} |-> insertSessionSchema]
        @@ [s \in {"POST /api/exchanges"} |-> insertExchangeSchema]

ValidatedPuts ==
    [s \in {"PUT /api/skills/:id"} |-> insertSkillSchema]
        @@ [s \in {"PUT /api/matches/:id"} |-> insertMatchSchema]
        @@ [s \in {"PUT /api/sessions/:id"} |-> insertSessionSchema]
        @@ [s \in {"PUT /api/exchanges/:id"} |-> insertExchangeSchema]

\* an update payload fails the type checks: a field that must hold a string
\* or a number holds null
FailsTypeCheck(schema, body) ==
    \E f \in DOMAIN body \cap (schema.required \cup schema.optional) :
        IsNull(f, body[f])

\* C18: a POST or PUT on skills, matches, sessions or exchanges whose
\* payload fails the required-field or type checks is answered 400 and
\* changes no map and no id counter.
C18_InvalidRejected ==
    [][/\ (res'.route \in DOMAIN ValidatedPosts
             /\ ~Accepts(ValidatedPosts[res'.route], ret'.arg)) =>
             /\ res'.status = 400
             /\ Store' = Store
             /\ Counter' = Counter
       /\ (res'.route \in DOMAIN ValidatedPuts
             /\ FailsTypeCheck(ValidatedPuts[res'.route], ret'.arg)) =>
             /\ res'.status = 400
             /\ Store' = Store
             /\ Counter' = Counter]_vars


\* the status changes of an expense that the workflow allows
Allowed(old, new) ==
    \/ new = old
    \/ old = "pending" /\ new = "submitted"
    \/ old = "submitted" /\ new \in {"approved", "rejected"}

\* C19: in no step does a stored expense go from one status to another
\* except from pending to submitted and from submitted to approved or
\* rejected.
C19_StatusMonotone ==
    [][\A i \in 1..Len(expenses) :
          LET old == expenses[i].val
              new == MapGet(expenses', expenses[i].key)
          IN  (new # Undefined /\ "status" \in DOMAIN old
                 /\ "status" \in DOMAIN new) =>
                 Allowed(old.status, new.status)]_vars

(***************************************************************************)
(* The expense workflow: expenses are created, submitted, decided on and   *)
(* deleted.  The handlers of the submit and of the approval request are    *)
(* those the specification describes: the approval request creates the     *)
(* Approval and then updates the Expense, as two store operations between  *)
(* which other requests may run.                                           *)
(***************************************************************************)
\* steps per behaviour of the expense workflow specification
MaxApprOps == 5

\* POST /api/expenses/:id/submit
submitExpense(param) ==
    /\ updateExpense(parseInt(param),
                     [status |-> "submitted", submittedAt |-> now])
    /\ res' = IF ret'.val = Undefined
              THEN Response("POST /api/expenses/:id/submit", 404,
                            [message |-> "Expense not found"])
              ELSE Response("POST /api/expenses/:id/submit", 200, ret'.val)

\* POST /api/approvals, first store operation: the Approval is created
postApproval(body) ==
    /\ inflight = Idle
    /\ createApproval(body)
    /\ inflight' = [approval |-> ret'.val]
    /\ res' = NoResponse

\* what the decision of the approval writes into its expense
decision(approval) ==
    IF approval.status = "approved"
    THEN [status |-> "approved", approvedBy |-> approval.approverId,
          approvedAt |-> now]
    ELSE [status |-> "rejected"]

\* POST /api/approvals, second store operation: the Expense is updated and
\* the request is answered with the Approval
applyApproval ==
    /\ inflight # Idle
    /\ updateExpense(inflight.approval.expenseId, decision(inflight.approval))
    /\ inflight' = Idle
    /\ res' = Response("POST /api/approvals", 201, inflight.approval)

\* the expense card of the client: the actions its menu offers for the
\* expense it shows
canEdit(expense) == expense.status = "pending"

canSubmit(expense) == expense.status = "pending"

\* (mutant) a card that offers delete for a pending expense only
canDeletePendingOnly(expense) == expense.status = "pending"

canDelete(expense) ==
    expense.status = "pending" \/ expense.status = "rejected"

\* the card of a stored expense is rendered; reading the status of an
\* expense that has none throws and nothing is rendered
ExpenseCard(id) ==
    LET expense == getExpense(id)
    IN  /\ expense # Undefined
        /\ ret' = Ret("ExpenseCard", id, expense,
                      IF "status" \notin DOMAIN expense
                      THEN Undefined
                      ELSE [canEdit |-> canEdit(expense),
                            canSubmit |-> canSubmit(expense),
                            canDelete |-> canDelete(expense)])
        /\ UNCHANGED <<maps, counters, now, assigned>>

\* a read of the store by another request: an approval and the expense it
\* references
readApproval(id) ==
    LET approval == getApproval(id)
    IN  /\ ret' = Ret("getApproval", id, <<>>,
                      [approval |-> approval,
                       expense |-> IF approval = Undefined
                                   THEN Undefined
                                   ELSE getExpense(approval.expenseId)])
        /\ UNCHANGED <<maps, counters, now, assigned>>

ApprovalBodies ==
    {[expenseId |-> 1, approverId |-> 2, status |-> "approved",
      comments |-> "OK"],
     [expenseId |-> 1, approverId |-> 2, status |-> "rejected",
      comments |-> "No receipt"]}

NextApproval ==
    \/ \E t \in Times : Op(MaxApprOps) /\ clockStep(t)
    \/ \E p \in InsertExpenses : Op(MaxApprOps) /\ createExpense(p)
    \/ \E s \in {"1", "2"} : Req(MaxApprOps) /\ submitExpense(s)
    \/ \E id \in {1} : Op(MaxApprOps) /\ deleteExpense(id)
    \/ \E b \in ApprovalBodies : Step(MaxApprOps) /\ postApproval(b)
    \/ Step(MaxApprOps) /\ applyApproval
    \/ \E id \in {1} : Op(MaxApprOps) /\ ExpenseCard(id)
    \/ \E id \in {1} : Op(MaxApprOps) /\ readApproval(id)

SpecApproval == Init /\ [][NextApproval]_vars

C21_ApprovalOnlySubmitted ==
    [][/\ ret'.op = "createApproval" =>
             LET expense == getExpense(ret'.val.expenseId)
             IN  /\ expense # Undefined
                 /\ "status" \in DOMAIN expense
                 /\ expense.status = "submitted"
       /\ \A i \in 1..Len(expenses) :
             LET old == expenses[i].val
                 new == MapGet(expenses', expenses[i].key)
             IN  ("status" \in DOMAIN old /\ old.status = "submitted"
                    /\ (new = Undefined \/ "status" \notin DOMAIN new
                          \/ new.status # "submitted")) =>
                    \E j \in 1..Len(approvals') :
                       approvals'[j].val.expenseId = old.id]_vars

\* C22 as stated: the card of an expense offers edit and delete exactly
\* when the status of the expense is pending or submitted.
C22_EditDeleteWhilePendingOrSubmitted ==
    (ret.op = "ExpenseCard" /\ ret.val # Undefined) =>
       /\ ret.val.canEdit <=> ret.arg.status \in {"pending", "submitted"}
       /\ ret.val.canDelete <=> ret.arg.status \in {"pending", "submitted"}

\* C22, amended: the card of a stored expense offers edit exactly when the
\* status of the expense is pending, and delete exactly when it is pending
\* or rejected; for a submitted or an approved expense it offers neither,
\* and for an expense stored without a status it offers nothing.
C22_EditPendingDeletePendingOrRejected ==
    ret.op = "ExpenseCard" =>
       LET expense == getExpense(ret.id)
       IN  /\ expense = ret.arg
           /\ "status" \notin DOMAIN expense => ret.val = Undefined
           /\ "status" \in DOMAIN expense =>
                 /\ ret.val # Undefined
                 /\ ret.val.canEdit <=> expense.status = "pending"
                 /\ ret.val.canDelete <=>
                       expense.status \in {"pending", "rejected"}
                 /\ expense.status \in {"submitted", "approved"} =>
                       ~ret.val.canEdit /\ ~ret.val.canDelete

\* the card of an expense that was submitted and rejected offers delete and
\* not edit
C22_Witness ==
    /\ ret.op = "ExpenseCard"
    /\ ret.val # Undefined
    /\ ret.arg.status = "rejected"
    /\ ret.val.canDelete
    /\ ~ret.val.canEdit
    /\ getApproval(1) # Undefined
    /\ getApproval(1).status = "rejected"

(***************************************************************************)
(* Properties of matches and messages.                                     *)
(***************************************************************************)
\* the statuses of a match that the schema names
MatchStatuses == {"pending", "accepted", "declined", "completed"}

\* C23: after any POST /api/matches and PUT /api/matches/:id requests, the
\* status of every stored match is one of pending, accepted, declined and
\* completed.
C23_MatchStatusInEnum ==
    \A i \in 1..Len(matches) :
       /\ "status" \in DOMAIN matches[i].val
       /\ matches[i].val.status \in MatchStatuses

\* C24: in no step is a stored match deleted, and in no step does the
\* teacherId, the learnerId or the skillId of a stored match change.
C24_MatchEndpointsFixed ==
    [][\A i \in 1..Len(matches) :
          LET old == matches[i].val
              new == MapGet(matches', matches[i].key)
          IN  /\ new # Undefined
              /\ new.teacherId = old.teacherId
              /\ new.learnerId = old.learnerId
              /\ new.skillId = old.skillId]_vars

\* C25: every stored message belongs to a stored match, and its sender is
\* the teacher or the learner of that match.
C25_MessageOfParticipant ==
    \A i \in 1..Len(messages) :
       LET message == messages[i].val
           match == getMatch(message.matchId)
       IN  /\ match # Undefined
           /\ message.senderId \in {match.teacherId, match.learnerId}

(***************************************************************************)
(* Properties of the predicate queries.                                    *)
(***************************************************************************)
\* the arguments the queries are asked with
QueryUsers == {1, 2, 3}

QueryTypes == {"teach", "learn"}

QueryStatuses == {"pending", "accepted", "declined", "completed", "submitted"}

\* the number of positions of hits up to position i
Rank(hits, i) == Cardinality({j \in hits : j <= i})

\* r holds the records of the map m at the positions hits, each once, in
\* the order of the map
Exactly(r, m, hits) ==
    /\ Len(r) = Cardinality(hits)
    /\ \A i \in hits : r[Rank(hits, i)] = m[i].val

\* the entries of the map m are in the order their keys were assigned in
InInsertionOrder(m) ==
    \A i, j \in 1..Len(m) : i < j => m[i].key < m[j].key

\* C26: each predicate query returns exactly the stored records that meet
\* its predicate, each once and in insertion order, whatever creates,
\* updates and deletes came before; getMatchesByUser(u) holds a stored
\* match exactly when u is its teacher or its learner.
C26_QueriesExact ==
    /\ InInsertionOrder(skills)
    /\ InInsertionOrder(matches)
    /\ InInsertionOrder(expenses)
    /\ \A u \in QueryUsers :
          /\ Exactly(getSkillsByUser(u), skills,
                     {i \in 1..Len(skills) : skills[i].val.userId = u})
          /\ Exactly(getMatchesByUser(u), matches,
                     {i \in 1..Len(matches) :
                         u \in {matches[i].val.teacherId,
                                matches[i].val.learnerId}})
          /\ Exactly(getExpensesByUser(u), expenses,
                     {i \in 1..Len(expenses) : expenses[i].val.userId = u})
          /\ \A i \in 1..Len(matches) :
                (\E k \in 1..Len(getMatchesByUser(u)) :
                    getMatchesByUser(u)[k] = matches[i].val)
                <=> (matches[i].val.teacherId = u
                       \/ matches[i].val.learnerId = u)
    /\ \A t \in QueryTypes :
          Exactly(getSkillsByType(t), skills,
                  {i \in 1..Len(skills) : skills[i].val.type = t})
    /\ \A s \in QueryStatuses :
          /\ Exactly(getMatchesByStatus(s), matches,
                     {i \in 1..Len(matches) : matches[i].val.status = s})
          /\ Exactly(getExpensesByStatus(s), expenses,
                     {i \in 1..Len(expenses) :
                         "status" \in DOMAIN expenses[i].val
                            /\ expenses[i].val.status = s})

\* a skill was created and updated and the first skill deleted: what is
\* left of the skills of user 1 and of the skills taught is returned in
\* insertion order, the update included
C26_Witness ==
    /\ ret.op = "deleteSkill"
    /\ ret.id = 1
    /\ ret.val = TRUE
    /\ Len(skills) = 3
    /\ \E k \in 1..Len(getSkillsByType("teach")) :
          /\ k > 1
          /\ getSkillsByType("teach")[k].id = 4
          /\ getSkillsByType("teach")[k].level = "intermediate"
          /\ getSkillsByType("teach")[1].id = 2
    /\ \E k \in 1..Len(getSkillsByUser(1)) : getSkillsByUser(1)[k].id = 4
    /\ Len(getMatchesByUser(2)) = Len(matches)

C28_PairAloneExcludes ==
    ret.op = "suggestions" =>
       \A i \in 1..Len(matches) :
          LET match == matches[i].val
          IN  ret.id \in {match.teacherId, match.learnerId} =>
                 \A k \in 1..Len(ret.val) :
                    /\ ret.val[k].teacher.id # match.teacherId
                    /\ ret.val[k].teacher.id # match.learnerId
                    /\ res.body[k].teacher.id \notin
                          {match.teacherId, match.learnerId}

\* john learns "Python" and sarah teaches it; their only match is over
\* john's JavaScript skill, no match is over sarah's Python skill, and the
\* suggestions of john leave sarah out
C28_Witness ==
    /\ ret.op = "suggestions"
    /\ ret.id = 1
    /\ \E l \in LearnSkills(1) :
          /\ TeachHits(sarah, l) # {}
          /\ \A h \in TeachHits(sarah, l), i \in 1..Len(matches) :
                matches[i].val.skillId # skills[h].val.id
    /\ \E i \in 1..Len(matches) :
          /\ matches[i].val.teacherId = 1
          /\ matches[i].val.learnerId = 2
          /\ getSkill(matches[i].val.skillId) = programmingSkill
    /\ 2 \notin Teachers(ret.val)

\* C29: no teacher object in the response of the suggestion request has a
\* password field.
C29_NoPasswordInSuggestions ==
    res.route = "GET /api/matches/suggestions/:userId" =>
       \A k \in 1..Len(res.body) :
          "password" \notin DOMAIN res.body[k].teacher

\* C30: the suggestion request changes no stored record and advances no id
\* counter: the eight maps and the eight counters are after it what they
\* were before it, and no id was assigned.
C30_SuggestReadOnly ==
    [][ret'.op = "suggestions" =>
          /\ Store' = Store
          /\ Counter' = Counter
          /\ assigned' = assigned]_vars

\* after two skills were created the suggestions of user 3 were computed:
\* they hold a candidate, and the skill counter is where the creations left
\* it
C30_Witness ==
    /\ ret.op = "suggestions"
    /\ ret.id = 3
    /\ Len(ret.val) >= 1
    /\ res.body = ret.val
    /\ currentSkillId = 6
    /\ Len(skills) = 5
    /\ currentMatchId = 2
    /\ Len(matches) = 1

====
